---- MODULE Spec2Model ----
(***************************************************************************)
(* Model of the faculty-award-nomination pipeline: the chunker, the chunk  *)
(* identifier, the CV ingestion run (src/src/ingest_cv.py) and the         *)
(* retrieval / context aggregation of the matching run                     *)
(* (src/src/rag_matching.py, src/prototype/rag_matching.py).               *)
(*                                                                         *)
(* A Python str is modelled as a sequence of one-character strings, so     *)
(* that split, join, slicing and formatting are computed, not assumed.     *)
(***************************************************************************)
EXTENDS Integers, Sequences, FiniteSets, TLC

VARIABLES
    \* ---- chunk_text(text, chunk_size, overlap) applied to one input
    text,           \* the text argument
    chunk_size,     \* the chunk_size argument
    overlap,        \* the overlap argument
    chunk_res,      \* NoCall before the call, then the call's outcome
    \* ---- generate_chunk_id applied to two (filename, chunk_index) pairs
    id_args,        \* <<[filename, chunk_index], [filename, chunk_index]>>
    id_res,         \* <<>> before the calls, then the two identifiers
    \* ---- the environment of a pipeline run
    prog,           \* which entry point runs: "ingest", "match" or "proto"
    tamu_key,       \* TAMU_API_KEY is set
    pinecone_key,   \* PINECONE_API_KEY is set
    cv_dir_exists,  \* CV_DIR.exists()
    files,          \* CV_DIR: stem -> Absent, Corrupt or the PDF's text
    index,          \* the Pinecone namespace: id -> record
    \* ---- a run of ingest_cvs / match_award_to_faculty
    pc,             \* position of the run
    config_ok,      \* "unchecked", "ok" or the exception validate_config raised
    effects,        \* external operations performed in this run: <<op, arg>>
    pdf_files,      \* sorted(list(CV_DIR.glob("*.pdf"))), as file names
    pos,            \* 1-based position of the for loop in pdf_files
    vectors,        \* the records prepared for the current source
    batch_pos,      \* offset i of the upload loop in vectors
    total_chunks,   \* total_chunks
    summary,        \* what the final print block reports, NoSummary before
    run,            \* number of the ingestion run
    prev,           \* the directory and the index ids at the end of the run before
    \* ---- a run of match_award_to_faculty / the prototype's retrieval
    prompt_template,\* the template read from the prompt file, stripped
    award_text,     \* the award file's text
    matches,        \* results['matches'] of index.query
    indices,        \* prototype: indices[0] of the FAISS search
    metadata,       \* prototype: the metadata store, position -> record
    context_str,    \* get_relevant_context's first result
    faculty_names,  \* get_relevant_context's second result
    final_prompt,   \* the prompt sent to the LLM
    result          \* NoCall, or what match_award_to_faculty returned / raised

chunkVars == <<text, chunk_size, overlap, chunk_res>>
idVars == <<id_args, id_res>>
envVars == <<prog, tamu_key, pinecone_key, cv_dir_exists, files, index>>
runVars == <<pc, config_ok, effects>>
ingestVars == <<pdf_files, pos, vectors, batch_pos, total_chunks, summary, run, prev>>
matchVars == <<prompt_template, award_text, matches, indices, metadata,
               context_str, faculty_names, final_prompt, result>>

vars == <<text, chunk_size, overlap, chunk_res, id_args, id_res,
          prog, tamu_key, pinecone_key, cv_dir_exists, files, index,
          pc, config_ok, effects,
          pdf_files, pos, vectors, batch_pos, total_chunks, summary, run, prev,
          prompt_template, award_text, matches, indices, metadata,
          context_str, faculty_names, final_prompt, result>>

(***************************************************************************)
(* Bounds of the model.                                                    *)
(***************************************************************************)
MaxTextLen == 5     \* longest enumerated text, in characters
MaxSize == 3        \* largest enumerated chunk_size
MaxNameLen == 2     \* longest enumerated filename, in characters
MaxIndex == 10      \* largest enumerated chunk index
MaxRuns == 2        \* ingestion runs in one behaviour
MaxStored == 4      \* most vectors / metadata records of the prototype's index

(***************************************************************************)
(* Program constants, scaled down so that several chunks and several       *)
(* upload batches fit in a text of a few words: the source's values are    *)
(* CHUNK_SIZE = 300, CHUNK_OVERLAP = 50 (config.py), batch_size = 100 and  *)
(* the metadata text cap 1000 (ingest_cv.py).  The scaled values keep      *)
(* 0 < CHUNK_OVERLAP < CHUNK_SIZE, as the source's do.                     *)
(***************************************************************************)
CHUNK_SIZE == 2
CHUNK_OVERLAP == 1
BATCH_SIZE == 2
TEXT_CAP == 2
TOP_K_CHUNKS == 3   \* config.py sets 10

(***************************************************************************)
(* Strings.                                                                *)
(***************************************************************************)
Min(a, b) == IF a <= b THEN a ELSE b

\* Characters str.split() (no argument) treats as separators.
Whitespace == {" ", "\n"}

\* The characters texts are enumerated over.
Chars == {"a", "b", " ", "\n"}

SeqsUpTo(S, n) == UNION {[1..k -> S] : k \in 0..n}

\* str.split(): maximal runs of non-whitespace characters, in order.
RECURSIVE SplitAcc(_, _, _)
SplitAcc(s, cur, acc) ==
    IF s = <<>>
    THEN IF cur = <<>> THEN acc ELSE Append(acc, cur)
    ELSE IF Head(s) \in Whitespace
         THEN SplitAcc(Tail(s), <<>>, IF cur = <<>> THEN acc ELSE Append(acc, cur))
         ELSE SplitAcc(Tail(s), Append(cur, Head(s)), acc)

Split(s) == SplitAcc(s, <<>>, <<>>)

\* " ".join(words)
RECURSIVE Join(_)
Join(words) ==
    IF words = <<>> THEN <<>>
    ELSE IF Len(words) = 1 THEN words[1]
    ELSE words[1] \o <<" ">> \o Join(Tail(words))

\* str.strip()
RECURSIVE LStrip(_)
LStrip(s) == IF s # <<>> /\ Head(s) \in Whitespace THEN LStrip(Tail(s)) ELSE s

RECURSIVE RStrip(_)
RStrip(s) ==
    IF s # <<>> /\ s[Len(s)] \in Whitespace THEN RStrip(SubSeq(s, 1, Len(s) - 1)) ELSE s

Strip(s) == RStrip(LStrip(s))

\* s[a:b] for 0 <= a and 0 <= b
Slice(s, a, b) == SubSeq(s, a + 1, Min(b, Len(s)))

(***************************************************************************)
(* chunk_text                                                              *)
(***************************************************************************)
Returned(v) == [outcome |-> "return", value |-> v]
Raised(e) == [outcome |-> "raise", value |-> e]
NoCall == [outcome |-> "none", value |-> <<>>]

\* The test that ends the loop after the window at offset i.
ReachedEndOffByOne(i, size, n) == i + size > n

ReachedEnd(i, size, n) == i + size >= n

\* The loop advance: the third argument of range().
RangeStepSkipping(size, ovl) == size - ovl + 1

RangeStep(size, ovl) == size - ovl

\* The body of `for i in range(0, len(words), step)` from offset i on, step > 0.
RECURSIVE ChunkLoop(_, _, _, _, _)
ChunkLoop(words, i, step, size, chunks) ==
    IF i >= Len(words) THEN chunks
    ELSE LET chunk_words == Slice(words, i, i + size)
             chunk_str == Join(chunk_words)
             chunks2 == IF Strip(chunk_str) # <<>> THEN Append(chunks, chunk_str)
                        ELSE chunks
         IN  IF ReachedEnd(i, size, Len(words)) THEN chunks2
             ELSE ChunkLoop(words, i + step, step, size, chunks2)

\* range(0, n, 0) raises ValueError; range(0, n, step) with step < 0 is empty.
chunk_text(t, size, ovl) ==
    LET words == Split(t)
        step == RangeStep(size, ovl)
    IN  IF words = <<>> THEN Returned(<<>>)
        ELSE IF step = 0 THEN Raised("ValueError")
        ELSE IF step < 0 THEN Returned(<<>>)
        ELSE Returned(ChunkLoop(words, 0, step, size, <<>>))

\* "a b c d e"
ExampleText == <<"a", " ", "b", " ", "c", " ", "d", " ", "e">>

Texts == SeqsUpTo(Chars, MaxTextLen) \cup {ExampleText}

IdleId == id_args = <<>> /\ id_res = <<>>

NoSummary == [printed |-> FALSE]

EmptyIndex == [i \in {} |-> 0]

NoPrev == [completed |-> FALSE, files |-> <<>>, ids |-> {}]

IdleRun ==
    /\ pc = "idle" /\ config_ok = "unchecked" /\ effects = {}
    /\ pdf_files = <<>> /\ pos = 0 /\ vectors = <<>> /\ batch_pos = 0
    /\ total_chunks = 0 /\ summary = NoSummary /\ run = 0 /\ prev = NoPrev

IdleMatch ==
    /\ prompt_template = <<>> /\ award_text = <<>> /\ matches = <<>>
    /\ indices = <<>> /\ metadata = <<>> /\ context_str = <<>>
    /\ faculty_names = <<>> /\ final_prompt = <<>>
    /\ result = [outcome |-> "none", value |-> <<>>]

IdlePipeline ==
    /\ IdleMatch
    /\ prog = "none" /\ tamu_key = FALSE /\ pinecone_key = FALSE
    /\ cv_dir_exists = FALSE /\ files = <<>> /\ index = EmptyIndex
    /\ IdleRun

InitChunk ==
    /\ IdleId
    /\ IdlePipeline
    /\ text \in Texts
    /\ chunk_size \in 1..MaxSize
    /\ overlap \in 0..(MaxSize + 1)
    /\ chunk_res = NoCall

CallChunkText ==
    /\ chunk_res = NoCall
    /\ chunk_res' = chunk_text(text, chunk_size, overlap)
    /\ UNCHANGED <<text, chunk_size, overlap>>
    /\ UNCHANGED <<idVars, envVars, runVars, ingestVars, matchVars>>

NextChunk == CallChunkText

SpecChunk == InitChunk /\ [][NextChunk]_vars

Called == chunk_res # NoCall

\* The contract's domain: 0 <= overlap < size.
ValidWindow == 0 <= overlap /\ overlap < chunk_size

\* Number of the last window (counting from 0): the first one whose end,
\* offset + size, reaches or exceeds the token count n.
LastWindow(n, size, step) ==
    CHOOSE j \in 0..n : /\ j * step + size >= n
                        /\ \A m \in 0..(j - 1) : m * step + size < n

\* The windows at offsets 0, step, 2*step, ... up to the last window.
ExpectedChunks(t, size, ovl) ==
    LET words == Split(t)
        n == Len(words)
        step == size - ovl
    IN  IF n = 0 THEN <<>>
        ELSE [j \in 1..(LastWindow(n, size, step) + 1) |->
                 Join(SubSeq(words, (j - 1) * step + 1,
                             Min((j - 1) * step + size, n)))]

\* C1: for 0 <= overlap < size, chunk_text returns exactly the windows of the
\* token list at offsets 0, size-overlap, 2*(size-overlap), ..., the last one
\* being the first whose end reaches the token count; every chunk has at most
\* size tokens, a text without tokens gives the empty sequence, and
\* chunk_text("a b c d e", 3, 1) = ["a b c", "c d e"].
C1_ChunkWindows ==
    (Called /\ ValidWindow) =>
        /\ chunk_res = Returned(ExpectedChunks(text, chunk_size, overlap))
        /\ \A k \in 1..Len(chunk_res.value) :
               Len(Split(chunk_res.value[k])) <= chunk_size
        /\ (Split(text) = <<>> => chunk_res.value = <<>>)
        /\ (text = ExampleText /\ chunk_size = 3 /\ overlap = 1 =>
               chunk_res.value = << <<"a", " ", "b", " ", "c">>,
                                    <<"c", " ", "d", " ", "e">> >>)

C1_Witness ==
    /\ Called
    /\ text = ExampleText /\ chunk_size = 3 /\ overlap = 1
    /\ Len(chunk_res.value) = 2

\* C2: with overlap = 0 and size > 0, the chunks joined by single spaces and
\* split again on whitespace are exactly the token sequence of the text.
C2_NoOverlapReconstructs ==
    (Called /\ overlap = 0 /\ chunk_size > 0) =>
        /\ chunk_res.outcome = "return"
        /\ Split(Join(chunk_res.value)) = Split(text)

C2_Witness ==
    /\ Called /\ overlap = 0
    /\ chunk_res.outcome = "return"
    /\ Len(chunk_res.value) >= 2
    /\ Len(Split(text)) > chunk_size
    /\ Join(chunk_res.value) # text

\* C3: with overlap >= size (equal or greater) and a text that has tokens,
\* chunk_text ends in an error and returns no chunk sequence.
C3_OverlapGeSizeFailsFast ==
    (Called /\ overlap >= chunk_size /\ Split(text) # <<>>) =>
        chunk_res.outcome = "raise"

(***************************************************************************)
(* generate_chunk_id                                                       *)
(***************************************************************************)
IdleChunk ==
    text = <<>> /\ chunk_size = 1 /\ overlap = 0 /\ chunk_res = NoCall

Digit(d) == <<"0", "1", "2", "3", "4", "5", "6", "7", "8", "9">>[d + 1]

\* str(n) of an int: decimal digits, "-" first for a negative one.
RECURSIVE StrNat(_)
StrNat(n) == IF n < 10 THEN <<Digit(n)>> ELSE StrNat(n \div 10) \o <<Digit(n % 10)>>

Str(n) == IF n < 0 THEN <<"-">> \o StrNat(0 - n) ELSE StrNat(n)

\* f"{filename}_{chunk_index}"
IdStringNoSeparator(filename, chunk_index) == filename \o Str(chunk_index)

IdString(filename, chunk_index) == filename \o <<"_">> \o Str(chunk_index)

\* hashlib.md5(s.encode()).hexdigest(): the digest as a value determined by,
\* and determining, the hashed string (no collisions among the short inputs).
Md5Hex(s) == [md5 |-> s]

generate_chunk_id(filename, chunk_index) == Md5Hex(IdString(filename, chunk_index))

NameChars == {"a", "1", "_"}

Filenames == SeqsUpTo(NameChars, MaxNameLen)

IdArgs == [filename : Filenames, chunk_index : 0..MaxIndex]

InitId ==
    /\ IdleChunk
    /\ IdlePipeline
    /\ id_args \in [1..2 -> IdArgs]
    /\ id_res = <<>>

CallGenerateChunkId ==
    /\ id_args # <<>>
    /\ id_res = <<>>
    /\ id_res' = [k \in 1..2 |->
                     generate_chunk_id(id_args[k].filename, id_args[k].chunk_index)]
    /\ UNCHANGED id_args
    /\ UNCHANGED <<chunkVars, envVars, runVars, ingestVars, matchVars>>

NextId == CallGenerateChunkId

SpecId == InitId /\ [][NextId]_vars

\* C4: the identifier is a function of (filename, chunk_index) that separates
\* pairs: equal pairs give equal identifiers, and pairs that differ in the
\* filename or in the (non-negative) index give different identifiers.
C4_IdSeparatesPairs ==
    id_res # <<>> =>
        ((id_args[1] = id_args[2]) <=> (id_res[1] = id_res[2]))

\* Two different pairs whose filename and index digits run together to the
\* same characters, e.g. ("a1", 0) and ("a", 10).
C4_Witness ==
    /\ id_res # <<>>
    /\ id_args[1] # id_args[2]
    /\ id_args[1].filename \o Str(id_args[1].chunk_index)
         = id_args[2].filename \o Str(id_args[2].chunk_index)
    /\ id_args[1].chunk_index >= 10
    /\ id_res[1] # id_res[2]

(***************************************************************************)
(* config.validate_config                                                  *)
(***************************************************************************)
\* The outcome of validate_config(): "ok" (returns True) or the exception.
ValidateConfigKeysOnly(tk, pk, dir) ==
    IF ~tk \/ ~pk THEN "ValueError" ELSE "ok"

validate_config(tk, pk, dir) ==
    IF ~tk \/ ~pk THEN "ValueError"
    ELSE IF ~dir THEN "FileNotFoundError"
    ELSE "ok"

(***************************************************************************)
(* ingest_cvs                                                              *)
(***************************************************************************)
Absent == [kind |-> "absent", text |-> <<>>]
Corrupt == [kind |-> "corrupt", text |-> <<>>]
Pdf(t) == [kind |-> "pdf", text |-> t]

\* The PDFs a CV can be: unreadable, without text, blank, one chunk, three
\* chunks (two upload batches).
Contents ==
    {Corrupt, Pdf(<<>>), Pdf(<<" ", "\n">>), Pdf(<<"a">>),
     Pdf(<<"a", " ", "b", "\n", "c", " ", "d">>)}

Stems == {<<"a">>, <<"b">>}

Dirs == [Stems -> Contents \cup {Absent}]

EmptyDir == [st \in Stems |-> Absent]

\* pdf_file.name and pdf_file.stem
FileName(stem) == stem \o <<".pdf">>
Stem(name) == SubSeq(name, 1, Len(name) - 1)

\* Order of characters and of strings, as sorted() compares them.
CharRank(c) ==
    CHOOSE k \in 1..5 : <<".pdf", "1", "_", "a", "b">>[k] = c

RECURSIVE LexLess(_, _)
LexLess(x, y) ==
    IF y = <<>> THEN FALSE
    ELSE IF x = <<>> THEN TRUE
    ELSE IF Head(x) = Head(y) THEN LexLess(Tail(x), Tail(y))
    ELSE CharRank(Head(x)) < CharRank(Head(y))

Sorted(S) ==
    CHOOSE q \in [1..Cardinality(S) -> S] :
        /\ {q[k] : k \in 1..Cardinality(S)} = S
        /\ \A i, j \in 1..Cardinality(S) : i < j => LexLess(q[i], q[j])

\* CV_DIR.glob("*.pdf")
Glob(dir) == {FileName(st) : st \in {x \in Stems : dir[x] # Absent}}

\* extract_text_from_pdf: the pages' text, "" when reading raises.
extract_text_from_pdf(file) ==
    IF file.kind = "pdf" THEN file.text ELSE <<>>

\* model.encode: one vector per chunk, determined by the chunk.
Encode(chunk) == [vec |-> chunk]

\* The id a record of the current source gets.
VectorIdFromIndexSize(filename, i) ==
    generate_chunk_id(filename, Cardinality(DOMAIN index) + i)

VectorId(filename, i) == generate_chunk_id(filename, i)

\* The records ingest_cvs prepares for one source (i is zero-based).
BuildVectors(name, chunks) ==
    [k \in 1..Len(chunks) |->
        [id |-> VectorId(name, k - 1),
         values |-> Encode(chunks[k]),
         metadata |-> [filename |-> name,
                       chunk_id |-> k - 1,
                       text |-> Slice(chunks[k], 0, TEXT_CAP),
                       faculty_name |-> Stem(name)]]]

\* index.upsert: a record replaces the one stored under the same id.
UpsertReplacingAll(idx, batch) ==
    [i \in {batch[k].id : k \in 1..Len(batch)} |->
        batch[CHOOSE k \in 1..Len(batch) : batch[k].id = i]]

Upsert(idx, batch) ==
    LET ids == {batch[k].id : k \in 1..Len(batch)}
        last(i) == CHOOSE k \in 1..Len(batch) :
                      /\ batch[k].id = i
                      /\ \A m \in 1..Len(batch) : batch[m].id = i => m <= k
    IN  [i \in DOMAIN idx \cup ids |->
            IF i \in ids THEN batch[last(i)] ELSE idx[i]]

\* Where the for loop goes after `continue`.
SkipAborts(p) == [pc |-> "returned", pos |-> p]

SkipStep(p) == [pc |-> "loop", pos |-> p + 1]

Did(op, arg) == <<op, arg>>

InitIngest ==
    /\ prog = "ingest"
    /\ tamu_key \in BOOLEAN /\ pinecone_key \in BOOLEAN
    /\ cv_dir_exists \in BOOLEAN
    /\ files \in Dirs
    /\ (~cv_dir_exists => files = EmptyDir)
    /\ index = EmptyIndex
    /\ pc = "start" /\ config_ok = "unchecked" /\ effects = {}
    /\ pdf_files = <<>> /\ pos = 0 /\ vectors = <<>> /\ batch_pos = 0
    /\ total_chunks = 0 /\ summary = NoSummary /\ run = 1 /\ prev = NoPrev

\* ingest_cvs up to the for loop: validate, glob, connect, load the model.
IngestStart ==
    /\ prog = "ingest" /\ pc = "start"
    /\ LET v == validate_config(tamu_key, pinecone_key, cv_dir_exists)
           found == Sorted(Glob(files))
       IN  /\ config_ok' = v
           /\ IF v # "ok"
              THEN /\ pc' = "returned"
                   /\ UNCHANGED <<effects, pdf_files, pos>>
              ELSE IF found = <<>>
              THEN /\ pc' = "returned"
                   /\ effects' = {Did("glob", <<>>)}
                   /\ UNCHANGED <<pdf_files, pos>>
              ELSE /\ pc' = "loop"
                   /\ effects' = {Did("glob", <<>>), Did("connect", <<>>),
                                  Did("load_model", <<>>)}
                   /\ pdf_files' = found
                   /\ pos' = 1
    /\ total_chunks' = 0
    /\ UNCHANGED <<vectors, batch_pos, summary, run, prev>>
    /\ UNCHANGED <<chunkVars, idVars, envVars, matchVars>>

\* One iteration of the for loop up to the upload: extract, chunk, embed, build.
ProcessSource ==
    /\ prog = "ingest" /\ pc = "loop" /\ pos <= Len(pdf_files)
    /\ LET name == pdf_files[pos]
           raw_text == extract_text_from_pdf(files[Stem(name)])
           res == chunk_text(raw_text, CHUNK_SIZE, CHUNK_OVERLAP)
       IN  IF raw_text = <<>>
           THEN /\ effects' = effects \cup {Did("extract", name)}
                /\ pc' = SkipStep(pos).pc /\ pos' = SkipStep(pos).pos
                /\ UNCHANGED <<vectors, batch_pos>>
           ELSE IF res.outcome = "raise"
           THEN /\ effects' = effects \cup {Did("extract", name)}
                /\ pc' = "raised"
                /\ UNCHANGED <<pos, vectors, batch_pos>>
           ELSE IF res.value = <<>>
           THEN /\ effects' = effects \cup {Did("extract", name)}
                /\ pc' = SkipStep(pos).pc /\ pos' = SkipStep(pos).pos
                /\ UNCHANGED <<vectors, batch_pos>>
           ELSE /\ effects' = effects \cup {Did("extract", name), Did("encode", name)}
                /\ vectors' = BuildVectors(name, res.value)
                /\ batch_pos' = 0
                /\ pc' = "upload"
                /\ UNCHANGED pos
    /\ UNCHANGED <<config_ok, pdf_files, total_chunks, summary, run, prev>>
    /\ UNCHANGED <<chunkVars, idVars, envVars, matchVars>>

\* One index.upsert of the upload loop succeeds; after the last batch the
\* iteration ends (total_chunks += len(chunks)).
UpsertBatch ==
    /\ prog = "ingest" /\ pc = "upload"
    /\ LET batch == Slice(vectors, batch_pos, batch_pos + BATCH_SIZE)
       IN  /\ index' = Upsert(index, batch)
           /\ effects' = effects \cup {Did("upsert", pdf_files[pos])}
           /\ IF batch_pos + BATCH_SIZE >= Len(vectors)
              THEN /\ total_chunks' = total_chunks + Len(vectors)
                   /\ vectors' = <<>>
                   /\ batch_pos' = 0
                   /\ pos' = pos + 1
                   /\ pc' = "loop"
              ELSE /\ batch_pos' = batch_pos + BATCH_SIZE
                   /\ UNCHANGED <<total_chunks, vectors, pos, pc>>
    /\ UNCHANGED <<config_ok, pdf_files, summary, run, prev>>
    /\ UNCHANGED <<prog, tamu_key, pinecone_key, cv_dir_exists, files>>
    /\ UNCHANGED <<chunkVars, idVars, matchVars>>

\* index.upsert raises (index unavailable): nothing in ingest_cvs catches it.
UpsertFails ==
    /\ prog = "ingest" /\ pc = "upload"
    /\ pc' = "raised"
    /\ UNCHANGED <<config_ok, effects, ingestVars>>
    /\ UNCHANGED <<chunkVars, idVars, envVars, matchVars>>

\* After the loop: describe_index_stats and the summary block.
Summary ==
    /\ prog = "ingest" /\ pc = "loop" /\ pos > Len(pdf_files)
    /\ effects' = effects \cup {Did("stats", <<>>)}
    /\ summary' = [printed |-> TRUE,
                   processed |-> Len(pdf_files),
                   total_chunks |-> total_chunks,
                   vector_count |-> Cardinality(DOMAIN index)]
    /\ pc' = "returned"
    /\ UNCHANGED <<config_ok, pdf_files, pos, vectors, batch_pos, total_chunks, run, prev>>
    /\ UNCHANGED <<chunkVars, idVars, envVars, matchVars>>

\* describe_index_stats raises.
StatsFails ==
    /\ prog = "ingest" /\ pc = "loop" /\ pos > Len(pdf_files)
    /\ pc' = "raised"
    /\ UNCHANGED <<config_ok, effects, ingestVars>>
    /\ UNCHANGED <<chunkVars, idVars, envVars, matchVars>>

\* The process is stopped in the middle of a run.
Kill ==
    /\ prog = "ingest" /\ pc \in {"loop", "upload"}
    /\ pc' = "killed"
    /\ UNCHANGED <<config_ok, effects, ingestVars>>
    /\ UNCHANGED <<chunkVars, idVars, envVars, matchVars>>

\* Directories that differ from dir in at most one file.
Edits(dir) == {d \in Dirs : Cardinality({st \in Stems : d[st] # dir[st]}) <= 1}

\* ingest_cvs is started again, the CV directory the same or edited in between.
NewRun ==
    /\ prog = "ingest" /\ pc \in {"returned", "raised", "killed"}
    /\ run < MaxRuns
    /\ prev' = [completed |-> summary.printed, files |-> files, ids |-> DOMAIN index]
    /\ run' = run + 1
    /\ files' \in (IF cv_dir_exists THEN Edits(files) ELSE {files})
    /\ pc' = "start" /\ config_ok' = "unchecked" /\ effects' = {}
    /\ pdf_files' = <<>> /\ pos' = 0 /\ vectors' = <<>> /\ batch_pos' = 0
    /\ total_chunks' = 0 /\ summary' = NoSummary
    /\ UNCHANGED <<prog, tamu_key, pinecone_key, cv_dir_exists, index>>
    /\ UNCHANGED <<chunkVars, idVars, matchVars>>

(***************************************************************************)
(* get_relevant_context (src/src/rag_matching.py)                          *)
(***************************************************************************)
\* dict.get(key, default) on a metadata record.
Get(md, key, default) == IF key \in DOMAIN md THEN md[key] ELSE default

\* list.append of one more chunk of a candidate.
AppendChunkDedup(chunks, c) ==
    IF \E k \in 1..Len(chunks) : chunks[k].text = c.text THEN chunks
    ELSE Append(chunks, c)

AppendChunk(chunks, c) == Append(chunks, c)

\* hits_by_faculty, a dict in insertion order: its keys in that order and the
\* list stored under each key.
EmptyHits == [keys |-> <<>>, lists |-> <<>>]

\* The grouping loop's body for one (label, chunk).
AddHit(hits, label, c) ==
    IF \E k \in 1..Len(hits.keys) : hits.keys[k] = label
    THEN LET k == CHOOSE k \in 1..Len(hits.keys) : hits.keys[k] = label
         IN  [hits EXCEPT !.lists[k] = AppendChunk(@, c)]
    ELSE [keys |-> Append(hits.keys, label),
          lists |-> Append(hits.lists, AppendChunk(<<>>, c))]

\* for match in results['matches']: ...
RECURSIVE GroupMatches(_, _)
GroupMatches(ms, hits) ==
    IF ms = <<>> THEN hits
    ELSE LET md == Head(ms).metadata
             faculty_name == Get(md, "faculty_name", Get(md, "filename", <<"Unknown">>))
             text_chunk == Get(md, "text", <<>>)
         IN  GroupMatches(Tail(ms),
                 AddHit(hits, faculty_name,
                        [text |-> text_chunk, score |-> Head(ms).score]))

\* The excerpt lines of one candidate: f"...{text}...\n" per chunk.
RECURSIVE ExcerptLines(_)
ExcerptLines(chunks) ==
    IF chunks = <<>> THEN <<>>
    ELSE <<"...">> \o Head(chunks).text \o <<"...", "\n">> \o ExcerptLines(Tail(chunks))

\* The formatting loop over hits_by_faculty.items() from key k on.
RECURSIVE FormatFrom(_, _)
FormatFrom(hits, k) ==
    IF k > Len(hits.keys) THEN <<>>
    ELSE <<"### CANDIDATE: ">> \o hits.keys[k] \o <<"\n">>
         \o <<"RELEVANT EXCERPTS:", "\n">>
         \o ExcerptLines(hits.lists[k])
         \o <<"\n">>
         \o FormatFrom(hits, k + 1)

\* get_relevant_context after the query: (context_str, faculty_names).
get_relevant_context(ms) ==
    LET hits == GroupMatches(ms, EmptyHits)
    IN  [context_str |-> FormatFrom(hits, 1), faculty_names |-> hits.keys]

\* index.query(vector, top_k = k, ...): the k best of the namespace's ranking.
QueryIgnoringK(ranked, k) == ranked

Query(ranked, k) == Slice(ranked, 0, k)

\* Metadata records a stored vector can carry (a record written by ingest_cvs
\* has all fields; one written by another tool may lack some).
Metadatas ==
    {[faculty_name |-> <<"A">>, filename |-> <<"A", ".pdf">>, text |-> <<"x">>],
     [faculty_name |-> <<"B">>, filename |-> <<"B", ".pdf">>, text |-> <<"y">>],
     [faculty_name |-> <<"B">>, filename |-> <<"B", ".pdf">>, text |-> <<"x">>],
     [filename |-> <<"C", ".pdf">>, text |-> <<"z">>],
     [chunk_id |-> 0]}

\* The ranking of a namespace that holds n vectors: best first, scores falling.
Rankings ==
    UNION {[1..n -> Metadatas] : n \in 0..(TOP_K_CHUNKS + 1)}

Scored(ranking) ==
    [k \in 1..Len(ranking) |-> [metadata |-> ranking[k], score |-> 10 - k]]

(***************************************************************************)
(* Prompt assembly and match_award_to_faculty                              *)
(***************************************************************************)
AWARD_TOKEN == <<"{", "AWARD_TEXT", "}">>
CV_TOKEN == <<"{", "CV_TEXT", "}">>

StartsWith(s, old) == Len(s) >= Len(old) /\ SubSeq(s, 1, Len(old)) = old

\* str.replace(old, new): every non-overlapping occurrence, left to right.
RECURSIVE Replace(_, _, _)
Replace(s, old, new) ==
    IF s = <<>> THEN <<>>
    ELSE IF old # <<>> /\ StartsWith(s, old)
         THEN new \o Replace(SubSeq(s, Len(old) + 1, Len(s)), old, new)
         ELSE <<Head(s)>> \o Replace(Tail(s), old, new)

\* prompt_template.replace("{AWARD_TEXT}", award_text).replace("{CV_TEXT}", context_string)
AssemblePrompt(template, award, context) ==
    Replace(Replace(template, AWARD_TOKEN, award), CV_TOKEN, context)

\* Prompt files: the two-placeholder template (with a trailing newline) and
\* one without placeholders.
TemplateFiles ==
    {<<"Q:">> \o AWARD_TOKEN \o <<" ", "C:">> \o CV_TOKEN \o <<"\n">>,
     <<"T">>}

AwardFiles == {<<"X">>, CV_TOKEN}

\* data["choices"][0]["message"]["content"] of a successful LLM response.
LLMContents == {<<>>, <<"R">>}

InitMatch ==
    /\ prog = "match"
    /\ tamu_key \in BOOLEAN /\ pinecone_key \in BOOLEAN
    /\ cv_dir_exists \in BOOLEAN
    /\ files = EmptyDir
    /\ index = EmptyIndex
    /\ pc = "start" /\ config_ok = "unchecked" /\ effects = {}
    /\ pdf_files = <<>> /\ pos = 0 /\ vectors = <<>> /\ batch_pos = 0
    /\ total_chunks = 0 /\ summary = NoSummary /\ run = 1 /\ prev = NoPrev

\* match_award_to_faculty up to the retrieval: validate, read the template and
\* the award (tmpl, award: the files' texts), connect, load the model.
MatchStart ==
    /\ prog = "match" /\ pc = "start"
    /\ LET v == validate_config(tamu_key, pinecone_key, cv_dir_exists)
       IN  /\ config_ok' = v
           /\ IF v # "ok"
              THEN /\ pc' = "returned"
                   /\ result' = Returned(<<>>)
                   /\ UNCHANGED <<effects, prompt_template, award_text>>
              ELSE \E tmpl \in TemplateFiles, award \in AwardFiles :
                   /\ pc' = "retrieve"
                   /\ prompt_template' = Strip(tmpl)
                   /\ award_text' = award
                   /\ effects' = {Did("read_template", <<>>), Did("read_award", <<>>),
                                  Did("connect", <<>>), Did("load_model", <<>>)}
                   /\ UNCHANGED result
    /\ UNCHANGED <<matches, indices, metadata, context_str, faculty_names, final_prompt>>
    /\ UNCHANGED <<chunkVars, idVars, envVars, ingestVars>>

\* The prompt template file does not exist: FileNotFoundError (line 156).
MatchTemplateMissing ==
    /\ prog = "match" /\ pc = "start"
    /\ validate_config(tamu_key, pinecone_key, cv_dir_exists) = "ok"
    /\ config_ok' = "ok"
    /\ pc' = "raised"
    /\ result' = Raised("FileNotFoundError")
    /\ UNCHANGED effects
    /\ UNCHANGED <<prompt_template, award_text, matches, indices, metadata,
                   context_str, faculty_names, final_prompt>>
    /\ UNCHANGED <<chunkVars, idVars, envVars, ingestVars>>

\* get_relevant_context: embed the award, query the index, group and format.
MatchRetrieve ==
    /\ prog = "match" /\ pc = "retrieve"
    /\ \E ranking \in Rankings :
          LET ms == Query(Scored(ranking), TOP_K_CHUNKS)
              ctx == get_relevant_context(ms)
          IN  /\ matches' = ms
              /\ context_str' = ctx.context_str
              /\ faculty_names' = ctx.faculty_names
    /\ effects' = effects \cup {Did("encode", <<>>), Did("query", <<>>)}
    /\ pc' = "prompt"
    /\ UNCHANGED <<config_ok, prompt_template, award_text, indices, metadata,
                   final_prompt, result>>
    /\ UNCHANGED <<chunkVars, idVars, envVars, ingestVars>>

\* index.query raises (index unavailable): nothing catches it.
MatchQueryFails ==
    /\ prog = "match" /\ pc = "retrieve"
    /\ effects' = effects \cup {Did("encode", <<>>), Did("query", <<>>)}
    /\ pc' = "raised"
    /\ result' = Raised("IndexError")
    /\ UNCHANGED <<config_ok, prompt_template, award_text, matches, indices, metadata,
                   context_str, faculty_names, final_prompt>>
    /\ UNCHANGED <<chunkVars, idVars, envVars, ingestVars>>

\* Prompt assembly and call_llm with a response that has "choices".
MatchCallLLM ==
    /\ prog = "match" /\ pc = "prompt"
    /\ final_prompt' = AssemblePrompt(prompt_template, award_text, context_str)
    /\ effects' = effects \cup {Did("llm", <<>>)}
    /\ \E content \in LLMContents : result' = Returned(content)
    /\ pc' = "returned"
    /\ UNCHANGED <<config_ok, prompt_template, award_text, matches, indices, metadata,
                   context_str, faculty_names>>
    /\ UNCHANGED <<chunkVars, idVars, envVars, ingestVars>>

\* call_llm with a response without "choices": raise Exception (line 130).
MatchLLMFails ==
    /\ prog = "match" /\ pc = "prompt"
    /\ final_prompt' = AssemblePrompt(prompt_template, award_text, context_str)
    /\ effects' = effects \cup {Did("llm", <<>>)}
    /\ result' = Raised("Exception")
    /\ pc' = "raised"
    /\ UNCHANGED <<config_ok, prompt_template, award_text, matches, indices, metadata,
                   context_str, faculty_names>>
    /\ UNCHANGED <<chunkVars, idVars, envVars, ingestVars>>

(***************************************************************************)
(* get_relevant_context (src/prototype/rag_matching.py)                    *)
(***************************************************************************)
\* The records of the prototype's metadata JSON, by position.
ProtoRecords ==
    <<[filename |-> <<"B", ".pdf">>, chunk_id |-> 0, text |-> <<"x">>],
      [filename |-> <<"A", ".pdf">>, chunk_id |-> 0, text |-> <<"y">>],
      [filename |-> <<"B", ".pdf">>, chunk_id |-> 1, text |-> <<"z">>],
      [filename |-> <<"A", ".pdf">>, chunk_id |-> 1, text |-> <<"y">>],
      [filename |-> <<"B", ".pdf">>, chunk_id |-> 2, text |-> <<"x">>]>>

\* The metadata store with n records: keys 0..n-1.
ProtoStore(n) == [p \in 0..(n - 1) |-> ProtoRecords[p + 1]]

\* index.search(query, k) on an index of ntotal vectors: k positions, the
\* min(k, ntotal) nearest ones first, each once, then -1.
SearchResults(ntotal, k) ==
    {q \in [1..k -> -1..(ntotal - 1)] :
        /\ \A i \in 1..k : (q[i] = -1) <=> (i > ntotal)
        /\ \A i, j \in 1..k : (i # j /\ q[i] # -1) => q[i] # q[j]}

NoRecord == [found |-> FALSE, record |-> <<>>]

\* The record the loop uses for position idx: none for -1 (line 54) and none
\* when metadata.get(idx) finds nothing (lines 56-57).
ProtoRecordForWrapping(md, idx) ==
    IF idx \in DOMAIN md THEN [found |-> TRUE, record |-> md[idx]]
    ELSE IF idx < 0 /\ Cardinality(DOMAIN md) + idx \in DOMAIN md
    THEN [found |-> TRUE, record |-> md[Cardinality(DOMAIN md) + idx]]
    ELSE NoRecord

ProtoRecordFor(md, idx) ==
    IF idx = -1 THEN NoRecord
    ELSE IF idx \in DOMAIN md THEN [found |-> TRUE, record |-> md[idx]]
    ELSE NoRecord

\* for idx in indices[0]: ...  (the lists hold the chunk texts)
RECURSIVE ProtoGroup(_, _, _)
ProtoGroup(idxs, md, hits) ==
    IF idxs = <<>> THEN hits
    ELSE LET r == ProtoRecordFor(md, Head(idxs))
         IN  IF r.found
             THEN ProtoGroup(Tail(idxs), md,
                      AddHit(hits, r.record.filename, [text |-> r.record.text]))
             ELSE ProtoGroup(Tail(idxs), md, hits)

proto_get_relevant_context(idxs, md) ==
    LET hits == ProtoGroup(idxs, md, EmptyHits)
    IN  [context_str |-> FormatFrom(hits, 1), faculty_names |-> hits.keys]

InitProto ==
    /\ prog = "proto"
    /\ tamu_key = FALSE /\ pinecone_key = FALSE /\ cv_dir_exists = FALSE
    /\ files = EmptyDir
    /\ index = EmptyIndex
    /\ pc = "start" /\ config_ok = "unchecked" /\ effects = {}
    /\ pdf_files = <<>> /\ pos = 0 /\ vectors = <<>> /\ batch_pos = 0
    /\ total_chunks = 0 /\ summary = NoSummary /\ run = 1 /\ prev = NoPrev
    /\ prompt_template = <<>> /\ award_text = <<>> /\ matches = <<>>
    /\ indices = <<>> /\ context_str = <<>>
    /\ faculty_names = <<>> /\ final_prompt = <<>>
    /\ result = NoCall
    /\ metadata \in {ProtoStore(n) : n \in 0..MaxStored}

\* The prototype's get_relevant_context on a FAISS index of ntotal vectors.
ProtoRetrieve ==
    /\ prog = "proto" /\ pc = "start"
    /\ \E ntotal \in 0..MaxStored :
          \E idxs \in SearchResults(ntotal, TOP_K_CHUNKS) :
              LET ctx == proto_get_relevant_context(idxs, metadata)
              IN  /\ indices' = idxs
                  /\ context_str' = ctx.context_str
                  /\ faculty_names' = ctx.faculty_names
    /\ effects' = {Did("encode", <<>>), Did("search", <<>>)}
    /\ pc' = "returned"
    /\ UNCHANGED <<config_ok, prompt_template, award_text, matches, metadata,
                   final_prompt, result>>
    /\ UNCHANGED <<chunkVars, idVars, envVars, ingestVars>>

Init ==
    /\ IdleChunk /\ IdleId
    /\ \/ InitIngest /\ IdleMatch
       \/ InitMatch /\ IdleMatch
       \/ InitProto

Next ==
    \/ IngestStart
    \/ ProcessSource
    \/ UpsertBatch
    \/ UpsertFails
    \/ Summary
    \/ StatsFails
    \/ Kill
    \/ NewRun
    \/ MatchStart
    \/ MatchTemplateMissing
    \/ MatchRetrieve
    \/ MatchQueryFails
    \/ MatchCallLLM
    \/ MatchLLMFails
    \/ ProtoRetrieve

Spec == Init /\ [][Next]_vars

(***************************************************************************)
(* Properties of ingest_cvs                                                *)
(***************************************************************************)
DidUpsert(name) == Did("upsert", name) \in effects
DidEncode(name) == Did("encode", name) \in effects

\* A source the run has to skip: unreadable, no text, or no chunk in its text.
Skippable(name) ==
    LET f == files[Stem(name)]
    IN  \/ f.kind = "corrupt"
        \/ f.text = <<>>
        \/ Split(f.text) = <<>>

\* C5: a second complete run over the unchanged source files leaves the index
\* with the same record ids (so the same record count) as the first run left.
C5_ReingestSameIds ==
    (prog = "ingest" /\ run >= 2 /\ summary.printed
        /\ prev.completed /\ prev.files = files) =>
        /\ DOMAIN index = prev.ids
        /\ summary.vector_count = Cardinality(prev.ids)

C5_Witness ==
    /\ prog = "ingest" /\ run = 2 /\ summary.printed
    /\ prev.completed /\ prev.files = files
    /\ Len(pdf_files) = 2
    /\ \A k \in 1..2 : DidUpsert(pdf_files[k])
    /\ Cardinality(DOMAIN index) >= 4

\* C6: a source whose extraction fails or gives no text or no chunk gets no
\* embedding call and no index write, and the run goes on: every source before
\* the loop position has been handled, and a run that started its loop ends
\* with the summary after every source that has chunks was written.
C6_SkipAndContinue ==
    prog = "ingest" =>
        /\ \A k \in 1..Len(pdf_files) :
               Skippable(pdf_files[k]) =>
                   ~DidEncode(pdf_files[k]) /\ ~DidUpsert(pdf_files[k])
        /\ (pc = "loop" =>
               \A k \in 1..(pos - 1) :
                   /\ Did("extract", pdf_files[k]) \in effects
                   /\ (~Skippable(pdf_files[k]) => DidUpsert(pdf_files[k])))
        /\ (pc = "returned" /\ pdf_files # <<>> =>
               /\ summary.printed
               /\ \A k \in 1..Len(pdf_files) :
                      /\ Did("extract", pdf_files[k]) \in effects
                      /\ (~Skippable(pdf_files[k]) => DidUpsert(pdf_files[k])))

C6_Witness ==
    /\ prog = "ingest" /\ pc = "returned" /\ summary.printed
    /\ Len(pdf_files) = 2
    /\ files[Stem(pdf_files[1])].kind = "corrupt"
    /\ ~DidEncode(pdf_files[1]) /\ ~DidUpsert(pdf_files[1])
    /\ DidUpsert(pdf_files[2])

\* C7: the processed count of the summary counts only the sources that were
\* chunked and written, not the skipped ones.
C7_SummaryCountsWritten ==
    (prog = "ingest" /\ summary.printed) =>
        summary.processed =
            Cardinality({k \in 1..Len(pdf_files) : DidUpsert(pdf_files[k])})

(***************************************************************************)
(* Properties of the configuration check                                   *)
(***************************************************************************)
ConfigPresent == tamu_key /\ pinecone_key /\ cv_dir_exists

\* C8: in ingest_cvs and match_award_to_faculty no external operation (file
\* discovery, index connection, model load, extraction, embedding, index write
\* or query, LLM call) happens unless validate_config succeeded on a complete
\* configuration, and with a missing key or CV directory the run ends at once
\* with none of them performed.
C8_ValidateBeforeWork ==
    prog \in {"ingest", "match"} =>
        /\ (effects # {} => config_ok = "ok" /\ ConfigPresent)
        /\ (index # EmptyIndex => ConfigPresent)
        /\ (pc # "start" /\ ~ConfigPresent =>
               /\ pc = "returned"
               /\ config_ok \in {"ValueError", "FileNotFoundError"}
               /\ effects = {}
               /\ index = EmptyIndex
               /\ ~summary.printed
               /\ final_prompt = <<>>)

C8_Witness ==
    /\ prog = "ingest" /\ pc = "returned"
    /\ tamu_key /\ pinecone_key /\ ~cv_dir_exists
    /\ config_ok = "FileNotFoundError"
    /\ effects = {}

(***************************************************************************)
(* Properties of get_relevant_context                                      *)
(***************************************************************************)
\* get_relevant_context has returned.
Retrieved ==
    \/ prog = "match" /\ (pc = "prompt" \/ Did("llm", <<>>) \in effects)
    \/ prog = "proto" /\ pc = "returned"

\* Number of excerpt lines ("...text...") in a context string.
ExcerptCount(s) == Cardinality({i \in 1..Len(s) : s[i] = "..."}) \div 2

\* A position the prototype may use: not the sentinel, and with a record.
ValidPos(p) == p # -1 /\ p \in DOMAIN metadata

\* C9: get_relevant_context groups at most k excerpts, and in the prototype a
\* position -1 or one without a metadata record adds no excerpt and no label:
\* the excerpts are exactly those of the valid positions.
C9_AtMostKValidHits ==
    Retrieved =>
        /\ ExcerptCount(context_str) <= TOP_K_CHUNKS
        /\ (prog = "match" =>
               /\ Len(matches) <= TOP_K_CHUNKS
               /\ ExcerptCount(context_str) = Len(matches))
        /\ (prog = "proto" =>
               /\ ExcerptCount(context_str)
                    = Cardinality({k \in 1..Len(indices) : ValidPos(indices[k])})
               /\ \A n \in 1..Len(faculty_names) :
                      \E k \in 1..Len(indices) :
                          /\ ValidPos(indices[k])
                          /\ metadata[indices[k]].filename = faculty_names[n])

C9_Witness ==
    /\ prog = "proto" /\ pc = "returned"
    /\ metadata # <<>>
    /\ \E k \in 1..Len(indices) : indices[k] = -1
    /\ \E k \in 1..Len(indices) : indices[k] >= 0 /\ ~ValidPos(indices[k])
    /\ ExcerptCount(context_str) = 1

\* The hits get_relevant_context uses, in the order received: label and text.
RECURSIVE ValidHits(_)
ValidHits(idxs) ==
    IF idxs = <<>> THEN <<>>
    ELSE IF ValidPos(Head(idxs))
         THEN <<[label |-> metadata[Head(idxs)].filename,
                 text |-> metadata[Head(idxs)].text]>> \o ValidHits(Tail(idxs))
         ELSE ValidHits(Tail(idxs))

LabelOf(md) ==
    IF "faculty_name" \in DOMAIN md THEN md.faculty_name
    ELSE IF "filename" \in DOMAIN md THEN md.filename
    ELSE <<"Unknown">>

ReceivedHits ==
    IF prog = "proto" THEN ValidHits(indices)
    ELSE [k \in 1..Len(matches) |->
             [label |-> LabelOf(matches[k].metadata),
              text |-> IF "text" \in DOMAIN matches[k].metadata
                       THEN matches[k].metadata.text ELSE <<>>]]

\* The labels of hs[1..n] without repetitions, in first-seen order.
RECURSIVE FirstSeen(_, _)
FirstSeen(hs, n) ==
    IF n = 0 THEN <<>>
    ELSE IF \E k \in 1..(n - 1) : hs[k].label = hs[n].label
         THEN FirstSeen(hs, n - 1)
         ELSE Append(FirstSeen(hs, n - 1), hs[n].label)

\* The excerpt lines of the hits of one label, every hit once, in hit order.
RECURSIVE ExcerptsOf(_, _)
ExcerptsOf(hs, label) ==
    IF hs = <<>> THEN <<>>
    ELSE IF Head(hs).label = label
         THEN <<"...">> \o Head(hs).text \o <<"...", "\n">> \o ExcerptsOf(Tail(hs), label)
         ELSE ExcerptsOf(Tail(hs), label)

RECURSIVE Sections(_, _)
Sections(hs, labels) ==
    IF labels = <<>> THEN <<>>
    ELSE <<"### CANDIDATE: ">> \o Head(labels) \o <<"\n", "RELEVANT EXCERPTS:", "\n">>
         \o ExcerptsOf(hs, Head(labels)) \o <<"\n">>
         \o Sections(hs, Tail(labels))

\* C10: the label list is the distinct labels in first-seen order, and the
\* context is one section per label in that order, each listing every chunk
\* text of that label once per hit, in the order received (no sorting, no
\* deduplication); hits labelled [B, A, B] give labels [B, A].
C10_FirstSeenGrouping ==
    Retrieved =>
        LET hs == ReceivedHits
        IN  /\ faculty_names = FirstSeen(hs, Len(hs))
            /\ context_str = Sections(hs, faculty_names)
            /\ ([k \in 1..Len(hs) |-> hs[k].label] = << <<"B">>, <<"A">>, <<"B">> >>
                   => faculty_names = << <<"B">>, <<"A">> >>)

\* Hits B, A, B whose two B chunks are y then x.
C10_Witness ==
    /\ prog = "match" /\ pc = "prompt"
    /\ Len(matches) = 3
    /\ [k \in 1..3 |-> LabelOf(matches[k].metadata)] = << <<"B">>, <<"A">>, <<"B">> >>
    /\ matches[1].metadata.text = <<"y">> /\ matches[3].metadata.text = <<"x">>
    /\ faculty_names = << <<"B">>, <<"A">> >>
    /\ context_str =
         <<"### CANDIDATE: ", "B", "\n", "RELEVANT EXCERPTS:", "\n",
           "...", "y", "...", "\n", "...", "x", "...", "\n", "\n",
           "### CANDIDATE: ", "A", "\n", "RELEVANT EXCERPTS:", "\n",
           "...", "x", "...", "\n", "\n">>

(***************************************************************************)
(* Properties of match_award_to_faculty                                    *)
(***************************************************************************)
\* The run ended before the LLM call: configuration validation, template
\* loading or the index query failed.
FailedBeforeLLM ==
    /\ prog = "match"
    /\ \/ config_ok \in {"ValueError", "FileNotFoundError"}
       \/ result = Raised("FileNotFoundError")
       \/ result = Raised("IndexError")

\* What a run whose LLM call succeeded can return.
LLMAnswers == {Returned(c) : c \in LLMContents}

\* C11: a run in which configuration validation, template loading or the
\* index query failed never calls the LLM, and what it ends with cannot be
\* taken for the value of a successful LLM call.
C11_FailureDistinctFromAnswer ==
    FailedBeforeLLM =>
        /\ Did("llm", <<>>) \notin effects
        /\ result \notin LLMAnswers

(***************************************************************************)
(* Properties of the prompt assembly                                       *)
(***************************************************************************)
\* The prompt has been assembled.
Assembled == prog = "match" /\ Did("llm", <<>>) \in effects

\* s holds sub at some position.
Contains(s, sub) ==
    \E i \in 0..(Len(s) - Len(sub)) : SubSeq(s, i + 1, i + Len(sub)) = sub

\* The template with each {AWARD_TEXT} of it replaced by the query text and
\* each {CV_TEXT} of it by the context, the inserted texts left as they are.
RECURSIVE Substituted(_, _, _)
Substituted(template, query, context) ==
    IF template = <<>> THEN <<>>
    ELSE IF StartsWith(template, AWARD_TOKEN)
         THEN query \o Substituted(SubSeq(template, Len(AWARD_TOKEN) + 1, Len(template)),
                                   query, context)
    ELSE IF StartsWith(template, CV_TOKEN)
         THEN context \o Substituted(SubSeq(template, Len(CV_TOKEN) + 1, Len(template)),
                                     query, context)
    ELSE <<Head(template)>> \o Substituted(Tail(template), query, context)

\* "Q:{AWARD_TEXT} C:{CV_TEXT}"
ExampleTemplate == <<"Q:">> \o AWARD_TOKEN \o <<" ", "C:">> \o CV_TOKEN

\* C12: the prompt is the template with {AWARD_TEXT} replaced by the query
\* text and {CV_TEXT} by the context string, nothing else changed; for the
\* template "Q:{AWARD_TEXT} C:{CV_TEXT}" and the query "X" it is "Q:X C:"
\* followed by the context.
C12_PromptIsSubstitutedTemplate ==
    Assembled =>
        /\ final_prompt = Substituted(prompt_template, award_text, context_str)
        /\ (prompt_template = ExampleTemplate /\ award_text = <<"X">> =>
               final_prompt = <<"Q:", "X", " ", "C:">> \o context_str)

\* The example of C12 alone, for the query "X".
C12_ExampleHolds ==
    (Assembled /\ prompt_template = ExampleTemplate /\ award_text = <<"X">>) =>
        final_prompt = <<"Q:", "X", " ", "C:">> \o context_str

\* C13: a template with neither placeholder gives the template followed by
\* the query text, so the query text is in the prompt.
C13_FallbackAppendsQuery ==
    (Assembled /\ ~Contains(prompt_template, AWARD_TOKEN)
        /\ ~Contains(prompt_template, CV_TOKEN)) =>
        /\ final_prompt = prompt_template \o award_text
        /\ Contains(final_prompt, award_text)

\* Number of positions at which s holds sub.
Occurrences(s, sub) ==
    Cardinality({i \in 0..(Len(s) - Len(sub)) : SubSeq(s, i + 1, i + Len(sub)) = sub})

\* C16: the query text is inserted verbatim: an award text that holds the
\* token {CV_TEXT} is in the prompt unchanged where the template had
\* {AWARD_TEXT}, and a non-empty context appears only as often as the
\* template has {CV_TEXT}.
C16_AwardTextVerbatim ==
    (Assembled /\ Contains(award_text, CV_TOKEN)) =>
        /\ (Contains(prompt_template, AWARD_TOKEN) => Contains(final_prompt, award_text))
        /\ (context_str # <<>> =>
               Occurrences(final_prompt, context_str)
                   = Occurrences(prompt_template, CV_TOKEN))

(***************************************************************************)
(* Properties of the index during and across ingestion runs                *)
(***************************************************************************)
\* The chunks ingest_cvs cuts from one readable source.
ChunksOf(content) == chunk_text(content.text, CHUNK_SIZE, CHUNK_OVERLAP).value

\* A stored record is complete: it is what ingest_cvs builds for some chunk of
\* some source, with the id, the vector and all four metadata fields.
CompleteRecord(i) ==
    LET r == index[i]
    IN  /\ DOMAIN r = {"id", "values", "metadata"}
        /\ DOMAIN r.metadata = {"filename", "chunk_id", "text", "faculty_name"}
        /\ r.id = i
        /\ r.id = generate_chunk_id(r.metadata.filename, r.metadata.chunk_id)
        /\ r.metadata.faculty_name = Stem(r.metadata.filename)
        /\ Len(r.metadata.text) <= TEXT_CAP
        /\ \E content \in Contents :
               /\ content.kind = "pdf"
               /\ r.metadata.chunk_id + 1 \in 1..Len(ChunksOf(content))
               /\ r.values = Encode(ChunksOf(content)[r.metadata.chunk_id + 1])
               /\ r.metadata.text =
                      Slice(ChunksOf(content)[r.metadata.chunk_id + 1], 0, TEXT_CAP)

\* While a source is uploaded, all of its records are already built.
AllBuiltBeforeUpload ==
    (prog = "ingest" /\ pc = "upload") =>
        /\ DidEncode(pdf_files[pos])
        /\ Len(vectors) = Len(ChunksOf(files[Stem(pdf_files[pos])]))
        /\ batch_pos < Len(vectors)

ValidPartialIndex ==
    prog = "ingest" =>
        /\ \A i \in DOMAIN index : CompleteRecord(i)
        /\ AllBuiltBeforeUpload
        /\ \A k \in 1..Len(pdf_files) :
               DidUpsert(pdf_files[k]) => DidEncode(pdf_files[k])

\* A step removes no record; a record changes only by an upsert of its id.
NoRollback ==
    prog = "ingest" =>
        /\ DOMAIN index \subseteq DOMAIN index'
        /\ \A i \in DOMAIN index :
               index'[i] # index[i] =>
                   /\ pc = "upload"
                   /\ \E k \in 1..Len(vectors) : vectors[k] = index'[i]

\* C14: at every point of an ingestion run, also after a kill or a failed
\* upsert, every stored record is complete, a source's records are written
\* only after all its chunks are embedded, and no step removes or rolls back
\* a record written earlier.
C14_ValidPartialIndex == []ValidPartialIndex /\ [][NoRollback]_vars

\* A run that stopped after its first batch was written and before the second.
C14_Witness ==
    /\ prog = "ingest" /\ pc \in {"raised", "killed"}
    /\ batch_pos > 0 /\ batch_pos < Len(vectors)
    /\ Cardinality(DOMAIN index) = batch_pos

\* The chunk indices stored for one source file.
StoredChunkIds(name) ==
    {index[i].metadata.chunk_id :
        i \in {j \in DOMAIN index : index[j].metadata.filename = name}}

\* C15: after a completed run, the chunk indices stored for each source that
\* the run ingested are exactly 0..n-1, n the number of chunks of the source
\* as ingested by that run; no record of an earlier, longer version is left.
C15_IndicesMatchLastIngest ==
    (prog = "ingest" /\ summary.printed) =>
        \A k \in 1..Len(pdf_files) :
            ~Skippable(pdf_files[k]) =>
                StoredChunkIds(pdf_files[k]) =
                    0..(Len(ChunksOf(files[Stem(pdf_files[k])])) - 1)

\* What does hold: the stored indices of a source are zero-based and contiguous.
C15_ZeroBasedContiguous ==
    prog = "ingest" =>
        \A st \in Stems :
            \E m \in 0..MaxIndex : StoredChunkIds(FileName(st)) = 0..(m - 1)

====
